---- MODULE Spec2Model ----
(***************************************************************************)
(* Model of src/weight_app.py: the spreadsheet-backed health dashboard.    *)
(*                                                                         *)
(* Four specifications share the variables below:                          *)
(*   SpecGoal     calculate_daily_macros_goal over get_config's output     *)
(*   SpecSummary  load_data / calculate_daily_summary over Food and Water  *)
(*   SpecConfig   save_config / get_config over the Config sheet           *)
(*   Spec         the Weight/Food/Water sheets, get_google_sheet's header  *)
(*                self-heal, the save_* functions and the AI estimate /    *)
(*                confirm flow of tab2                                     *)
(*                                                                         *)
(* Values.  A spreadsheet cell read by gspread's get_all_records is either *)
(* a number (gspread numericises numeric text) or a string; Num and Str    *)
(* model the two.  Python's int/float distinction does not change ==, < or *)
(* >, so numbers are integers here; a quotient is kept exact as a fraction *)
(* (Rat).                                                                  *)
(***************************************************************************)
EXTENDS Integers, Sequences, FiniteSets, TLC

VARIABLES
    daily_stats,    \* SpecGoal: the totals handed to calculate_daily_macros_goal
    config,         \* SpecGoal: the mapping get_config returned
    analysis,       \* SpecGoal: outcome of calculate_daily_macros_goal
    food_records,   \* SpecSummary: Food sheet rows as get_all_records returns them
    water_records,  \* SpecSummary: Water sheet rows as get_all_records returns them
    target_date,    \* SpecSummary: the date object passed by st.date_input
    env,            \* SpecSummary: build and store behaviour during the call
    totals,         \* SpecSummary: outcome of calculate_daily_summary
    config_sheet,   \* SpecConfig: data rows of the Config sheet (below the header)
    config_cache,   \* SpecConfig: st.cache_data entry of get_config
    sheets,         \* Spec: raw rows of the Weight, Food and Water sheets
    cached,         \* Spec: sheet names whose worksheet st.cache_resource holds
    last_result,    \* Spec: st.session_state['last_result'] (pending AI estimate)
    estimate_log    \* Spec: history of the estimates: how many were accepted,
                    \* which one is in the slot, which ones were stored

vars == <<daily_stats, config, analysis, food_records, water_records, target_date,
          env, totals, config_sheet, config_cache, sheets, cached,
          last_result, estimate_log>>

goalVars == <<daily_stats, config, analysis>>
summaryVars == <<food_records, water_records, target_date, env, totals>>
configVars == <<config_sheet, config_cache>>
storeVars == <<sheets, cached, last_result, estimate_log>>

(***************************************************************************)
(* Values                                                                  *)
(***************************************************************************)
Num(n) == [k |-> "num", v |-> n, s |-> ""]
Str(x) == [k |-> "str", v |-> 0, s |-> x]
IsNum(x) == x.k = "num"
None == [k |-> "None", v |-> 0, s |-> ""]

\* An exact quotient n/d (Python's true division), d # 0.
Rat(n, d) == [n |-> n, d |-> d]
RatEq(a, b) == a.n * b.d = b.n * a.d

RECURSIVE SumSeq(_)
SumSeq(s) == IF s = <<>> THEN 0 ELSE Head(s) + SumSeq(Tail(s))

(***************************************************************************)
(* get_config (lines 65-88)                                                *)
(***************************************************************************)
DEFAULT_TARGET_WEIGHT == 75
DEFAULT_TARGET_WATER == 3000
DEFAULT_TARGET_CAL == 1500
DEFAULT_TARGET_PROTEIN == 160

\* float(val) raises ValueError exactly for the cells gspread left as text;
\* the except branch keeps the original string (lines 74-80).
ConvertValue(val) ==
    IF IsNum(val) THEN Num(val.v) ELSE val

\* The loop of lines 70-80: later rows overwrite earlier ones; a row with an
\* empty key is skipped.
RECURSIVE ConfigFromRecords(_, _)
ConfigFromRecords(records, acc) ==
    IF records = <<>> THEN acc
    ELSE LET r == Head(records)
             next == IF r.Key # ""
                     THEN [x \in DOMAIN acc \cup {r.Key} |->
                              IF x = r.Key THEN ConvertValue(r.Value) ELSE acc[x]]
                     ELSE acc
         IN ConfigFromRecords(Tail(records), next)

EmptyMap == [x \in {} |-> None]

WithDefault(m, key, val) ==
    IF key \in DOMAIN m THEN m
    ELSE [x \in DOMAIN m \cup {key} |-> IF x = key THEN val ELSE m[x]]

get_config(records) ==
    WithDefault(
      WithDefault(
        WithDefault(
          WithDefault(ConfigFromRecords(records, EmptyMap),
                      "target_weight", Num(DEFAULT_TARGET_WEIGHT)),
          "target_water", Num(DEFAULT_TARGET_WATER)),
        "target_cal", Num(DEFAULT_TARGET_CAL)),
      "target_protein", Num(DEFAULT_TARGET_PROTEIN))

\* dict.get(key, default)
DictGet(m, key, default) == IF key \in DOMAIN m THEN m[key] ELSE default

(***************************************************************************)
(* calculate_daily_macros_goal (lines 279-330)                             *)
(***************************************************************************)
PROTEIN_KCAL_PER_G == 4
CARB_KCAL_PER_G == 4
FAT_KCAL_PER_G == 9
CARB_ALERT_G == 120

Raised(exc) == [status |-> "raised", exc |-> exc]

\* Mutant: the zero-target guard dropped.
Percent_NoGuard(total, target) == Rat(total * 100, target)

\* Lines 286-287: total / target * 100 if target > 0 else 0.
Percent(total, target) ==
    IF target > 0 THEN Rat(total * 100, target) ELSE Rat(0, 1)

\* Mutant: the breakdown taken by mass, every factor 1.
MacroCalories_ByMass(stats) == <<stats.prot, stats.carb, stats.fat>>

\* Lines 291-294 and 299: grams to kilocalories.
MacroCalories(stats) ==
    <<stats.prot * PROTEIN_KCAL_PER_G,
      stats.carb * CARB_KCAL_PER_G,
      stats.fat * FAT_KCAL_PER_G>>

\* Line 303: each macro's calories over the summed macro-calories, or the
\* scalar 0 for the whole column.
MacroPercentage(calories) ==
    LET total_macro_cal == calories[1] + calories[2] + calories[3]
    IN IF total_macro_cal > 0
       THEN [i \in 1..3 |-> Rat(calories[i] * 100, total_macro_cal)]
       ELSE [i \in 1..3 |-> Rat(0, 1)]

Alert(title, color, amount) == [title |-> title, color |-> color, amount |-> amount]

\* Lines 310-314: if / elif.
CalorieAlerts(cal, target_cal) ==
    IF cal > target_cal
    THEN <<Alert("cal_excess", "red", cal - target_cal)>>
    ELSE IF 2 * cal < target_cal          \* cal < target_cal * 0.5
         THEN <<Alert("cal_low", "orange", 0)>>
         ELSE <<>>

\* Lines 317-319.
ProteinAlerts(prot, target_protein) ==
    IF prot < target_protein
    THEN <<Alert("protein_low", "orange", target_protein - prot)>>
    ELSE <<>>

\* Lines 322-323.
CarbAlerts(carb) ==
    IF carb > CARB_ALERT_G THEN <<Alert("carb_high", "orange", 0)>> ELSE <<>>

\* Mutant: the rules chained with elif, so the first alert suppresses the rest.
BuildAlerts_ShortCircuit(stats, target_cal, target_protein) ==
    IF CalorieAlerts(stats.cal, target_cal) # <<>>
    THEN CalorieAlerts(stats.cal, target_cal)
    ELSE IF ProteinAlerts(stats.prot, target_protein) # <<>>
         THEN ProteinAlerts(stats.prot, target_protein)
         ELSE CarbAlerts(stats.carb)

\* Lines 307-323: the three checks append in this order.
BuildAlerts(stats, target_cal, target_protein) ==
    CalorieAlerts(stats.cal, target_cal)
      \o ProteinAlerts(stats.prot, target_protein)
      \o CarbAlerts(stats.carb)

\* A goal that get_config left as a string makes `target > 0` raise TypeError
\* (str against int) on line 286 or 287; nothing in the function catches it.
calculate_daily_macros_goal(stats, cfg) ==
    LET target_cal == DictGet(cfg, "target_cal", Num(DEFAULT_TARGET_CAL))
        target_protein == DictGet(cfg, "target_protein", Num(DEFAULT_TARGET_PROTEIN))
    IN IF ~IsNum(target_cal) THEN Raised("TypeError")
       ELSE IF ~IsNum(target_protein) THEN Raised("TypeError")
       ELSE [status |-> "returned",
             cal_percent |-> Percent(stats.cal, target_cal.v),
             prot_percent |-> Percent(stats.prot, target_protein.v),
             calories |-> MacroCalories(stats),
             percentage |-> MacroPercentage(MacroCalories(stats)),
             alerts |-> BuildAlerts(stats, target_cal.v, target_protein.v)]

(***************************************************************************)
(* load_data (lines 241-251) and calculate_daily_summary (lines 253-277)   *)
(*                                                                         *)
(* A row is what get_all_records returns for it: the date cell '日期' as   *)
(* text, the numeric columns as numbers or text.  A date cell is a bare    *)
(* date "YYYY-MM-DD", a timestamp "YYYY-MM-DD HH:MM:SS" with a non-midnight *)
(* time, or text that is no date.                                          *)
(***************************************************************************)
BareDate(d) == [fmt |-> "date", day |-> d]
Timestamp(d) == [fmt |-> "ts", day |-> d]
Garbage == [fmt |-> "bad", day |-> 0]

\* strftime('%Y-%m-%d') of a calendar day, also str(datetime.date).
IsoDate(d) == IF d = 1 THEN "2025-06-01" ELSE "2025-06-02"

NaT == [nat |-> TRUE, day |-> 0]
Parsed(d) == [nat |-> FALSE, day |-> d]

\* One cell parsed on its own; errors='coerce' turns a failure into NaT.
ParseCell(cell) ==
    IF cell.fmt = "bad" THEN NaT ELSE Parsed(cell.day)

\* pd.to_datetime(column, errors='coerce') (line 248).  Before pandas 2.0
\* every cell is parsed on its own.  From pandas 2.0 on the format is guessed
\* from the first cell and applied to the whole column: a cell in another
\* format does not match and is coerced to NaT; when no format can be guessed
\* from the first cell, every cell is parsed on its own.
to_datetime(column, consistent_format) ==
    [i \in DOMAIN column |->
        IF consistent_format /\ column[1].fmt # "bad" /\ column[i].fmt # column[1].fmt
        THEN NaT
        ELSE ParseCell(column[i])]

\* .dt.strftime('%Y-%m-%d') followed by astype(str) (lines 248, 261): NaT
\* becomes NaN and then the text 'nan'.
DateText(ts) == IF ts.nat THEN "nan" ELSE IsoDate(ts.day)

DateColumn(records) == [i \in DOMAIN records |-> records[i].date]

Outcomes == {"ok", "open_error", "read_error"}

\* load_data: get_google_sheet is called outside the try (an error there
\* propagates); an error of get_all_records is caught and gives an empty
\* frame, as does an empty sheet.  The frame is the rows with the date column
\* rewritten.
load_data(records, outcome, consistent_format) ==
    IF outcome = "open_error" THEN [raised |-> TRUE, df |-> <<>>]
    ELSE IF outcome = "read_error" \/ records = <<>> THEN [raised |-> FALSE, df |-> <<>>]
    ELSE [raised |-> FALSE,
          df |-> [i \in DOMAIN records |->
                     [row |-> records[i],
                      date |-> DateText(to_datetime(DateColumn(records),
                                                    consistent_format)[i])]]]

\* df[df['日期'].astype(str) == target_date_str] (lines 261, 270): the rows
\* kept, in order.
FilterByDate(df, target_date_str) ==
    SelectSeq(df, LAMBDA r : r.date = target_date_str)

\* pd.to_numeric(errors='coerce').fillna(0) of one cell (lines 264, 274).
Coerce(cell) == IF IsNum(cell) THEN cell.v ELSE 0

\* pd.to_numeric(df_target[col], errors='coerce').fillna(0).sum()
ColumnSum(df_target, col) ==
    SumSeq([i \in DOMAIN df_target |-> Coerce(df_target[i].row[col])])

ZeroTotals == [cal |-> 0, prot |-> 0, carb |-> 0, fat |-> 0, water |-> 0]

\* Lines 258-265: the Food block; an exception leaves the totals as they are.
FoodBlock(tot, records, target_date_str, outcome, consistent_format) ==
    LET loaded == load_data(records, outcome, consistent_format)
        df_target == FilterByDate(loaded.df, target_date_str)
    IN IF loaded.raised \/ loaded.df = <<>> THEN tot
       ELSE [tot EXCEPT !.cal = ColumnSum(df_target, "cal"),
                        !.prot = ColumnSum(df_target, "prot"),
                        !.carb = ColumnSum(df_target, "carb"),
                        !.fat = ColumnSum(df_target, "fat")]

\* Lines 267-275: the Water block.
WaterBlock(tot, records, target_date_str, outcome, consistent_format) ==
    LET loaded == load_data(records, outcome, consistent_format)
        df_target == FilterByDate(loaded.df, target_date_str)
    IN IF loaded.raised \/ loaded.df = <<>> THEN tot
       ELSE [tot EXCEPT !.water = ColumnSum(df_target, "vol")]

\* Mutant: one try around both blocks, so a Food failure skips Water.
calculate_daily_summary_OneTry(target, food, water, e) ==
    IF e.food = "open_error" THEN ZeroTotals
    ELSE WaterBlock(FoodBlock(ZeroTotals, food, IsoDate(target), e.food,
                              e.consistent_format),
                    water, IsoDate(target), e.water, e.consistent_format)

\* calculate_daily_summary(target_date): target_date_str = str(target_date),
\* then the two blocks, each in its own try.
calculate_daily_summary(target, food, water, e) ==
    WaterBlock(FoodBlock(ZeroTotals, food, IsoDate(target), e.food,
                         e.consistent_format),
               water, IsoDate(target), e.water, e.consistent_format)

(***************************************************************************)
(* get_google_sheet (lines 23-62): the worksheet of a sheet name, cached   *)
(* by st.cache_resource, with the header self-heal on the first successful *)
(* call.  A sheet is the sequence of its raw rows, a row the sequence of   *)
(* its cells.  Column titles are written in ASCII here.                    *)
(***************************************************************************)
WEIGHT_SHEET_NAME == "Weight Log"
FOOD_SHEET_NAME == "Food Log"
WATER_SHEET_NAME == "Water Log"
SheetNames == {WEIGHT_SHEET_NAME, FOOD_SHEET_NAME, WATER_SHEET_NAME}

HEADERS(sheet_name) ==
    CASE sheet_name = FOOD_SHEET_NAME ->
           <<Str("date"), Str("time"), Str("food_name"), Str("cal"), Str("prot"),
             Str("carb"), Str("fat")>>
      [] sheet_name = WATER_SHEET_NAME -> <<Str("date"), Str("time"), Str("vol_ml")>>
      [] sheet_name = WEIGHT_SHEET_NAME ->
           <<Str("date"), Str("height"), Str("weight"), Str("bmi"), Str("waist")>>

\* Line 50: "-" in str(cell) or the cell is a number.
LooksLikeData(cell) == IsNum(cell) \/ cell.s \in {IsoDate(1), IsoDate(2)}

\* Lines 44-58: first_row = ws.row_values(1); insert_row(header, 1) when row 1
\* holds something else, append_row(header) when row 1 is empty.
HealHeader(rows, sheet_name) ==
    LET expected_header == HEADERS(sheet_name)
        first_row == IF rows = <<>> THEN <<>> ELSE rows[1]
        is_data_in_header == first_row # <<>> /\ LooksLikeData(first_row[1])
    IN IF first_row = <<>> \/ first_row # expected_header \/ is_data_in_header
       THEN IF first_row # <<>> /\ first_row # expected_header
            THEN <<expected_header>> \o rows
            ELSE Append(rows, expected_header)
       ELSE rows

OpenOutcomes == {"ok", "open_error", "check_error"}

\* The call as a whole: [raised, rows, cached] after it.  A cached worksheet
\* is returned as is.  "open_error": gc.open / sh.worksheet raises, nothing is
\* cached.  "check_error": row_values raises inside the try of line 46, the
\* worksheet is returned (and cached) without the heal.
get_google_sheet(rows, sheet_name, is_cached, outcome) ==
    IF is_cached THEN [raised |-> FALSE, rows |-> rows, cached |-> TRUE]
    ELSE IF outcome = "open_error" THEN [raised |-> TRUE, rows |-> rows, cached |-> FALSE]
    ELSE IF outcome = "check_error" THEN [raised |-> FALSE, rows |-> rows, cached |-> TRUE]
    ELSE [raised |-> FALSE, rows |-> HealHeader(rows, sheet_name), cached |-> TRUE]

(***************************************************************************)
(* save_weight_data, save_food_data, save_water_data (lines 224-239): the  *)
(* worksheet is fetched, then one row is appended.                         *)
(***************************************************************************)
NOW_DATE == IsoDate(2)
NOW_TIME == "12:30"

WeightRow(d, h, w, b, waist) == <<Str(d), Num(h), Num(w), Num(b), Num(waist)>>
FoodRow(date_str, time_str, food, cal, prot, carb, fat) ==
    <<Str(date_str), Str(time_str), food, cal, prot, carb, fat>>
WaterRow(vol) == <<Str(NOW_DATE), Str(NOW_TIME), Num(vol)>>

\* Mutant: a row equal to the sheet's last row is not written again.
AppendRow_Dedup(rows, row) ==
    IF rows # <<>> /\ rows[Len(rows)] = row THEN rows ELSE Append(rows, row)

\* ws.append_row(row)
AppendRow(rows, row) == Append(rows, row)

\* A save call on one sheet: the sheets, the cache and whether it raised.
\* append_outcome "error" is a StoreError of append_row.
SaveRow(sheet_name, row, open_outcome, append_outcome) ==
    LET ws == get_google_sheet(sheets[sheet_name], sheet_name,
                               sheet_name \in cached, open_outcome)
        ok == ~ws.raised /\ append_outcome = "ok"
    IN [ok |-> ok,
        sheets |-> [sheets EXCEPT ![sheet_name] =
                       IF ok THEN AppendRow(ws.rows, row) ELSE ws.rows],
        cached |-> IF ws.cached THEN cached \cup {sheet_name} ELSE cached]

(***************************************************************************)
(* analyze_food_with_ai (lines 93-199) and the tab2 flow (lines 481-516)   *)
(***************************************************************************)
Fields == {"food_name", "calories", "protein", "carbs", "fat"}
\* Lines 504-508 index these four; line 509 and 513 use res.get('fat', 0).
IndexedFields == {"food_name", "calories", "protein", "carbs"}

EstimateValue(f) ==
    CASE f = "food_name" -> Str("chicken")
      [] f = "calories" -> Num(500)
      [] f = "protein" -> Num(40)
      [] f = "carbs" -> Num(30)
      [] f = "fat" -> Num(10)

\* What json.loads returns for an object with the keys in shape.
ParsedObject(shape) == [f \in shape |-> EstimateValue(f)]

\* The function's return value.  "no_key": the API key is missing (line 96);
\* "service_error": generate_content raises (line 196); "decode_error":
\* json.loads raises JSONDecodeError (line 190); "parsed": json.loads returned
\* the object, whatever keys it has (lines 184, 188).
analyze_food_with_ai(outcome, shape) ==
    IF outcome = "parsed" THEN [none |-> FALSE, value |-> ParsedObject(shape)]
    ELSE [none |-> TRUE, value |-> EmptyMap]

\* Line 484: `if res:` is false for None and for an empty dict.
AcceptEstimate(res) == ~res.none /\ DOMAIN res.value # {}

(***************************************************************************)
(* save_config (lines 204-222).  The Config sheet is its data rows, each   *)
(* [Key, Value], below the header row that get_google_sheet keeps in row 1 *)
(* (sheet row = index + 1).                                                *)
(***************************************************************************)
\* ws.find(key): the first cell of the sheet, row by row and left to right,
\* whose text equals key, in whichever column it is; 0 when there is none.
\* The header cells 'Key' and 'Value' are no goal name.
RECURSIVE FindCellRow(_, _, _)
FindCellRow(rows, key, i) ==
    IF i > Len(rows) THEN 0
    ELSE IF rows[i].Key = key \/ rows[i].Value = Str(key) THEN i
         ELSE FindCellRow(rows, key, i + 1)

\* Lines 214-218: the first record whose 'Key' equals key; 0 when none.
RECURSIVE FirstKeyRow(_, _, _)
FirstKeyRow(records, key, i) ==
    IF i > Len(records) THEN 0
    ELSE IF records[i].Key = key THEN i
         ELSE FirstKeyRow(records, key, i + 1)

\* ws.update_cell(row, 2, value)
UpdateValue(rows, i, value) == [rows EXCEPT ![i].Value = Num(value)]

\* The sheet after save_config(key, value) returns.  path "cell": ws.find
\* answers; a found cell's row gets the value in column 2, a CellNotFound
\* appends [key, value].  path "fallback": ws.find or update_cell raises any
\* other exception (a find that returns None makes cell.row one), and the
\* records are searched by their 'Key'.
save_config_rows(rows, key, value, path) ==
    LET hit == IF path = "cell" THEN FindCellRow(rows, key, 1)
               ELSE FirstKeyRow(rows, key, 1)
    IN IF hit # 0 THEN UpdateValue(rows, hit, value)
       ELSE Append(rows, [Key |-> key, Value |-> Num(value)])

(***************************************************************************)
(* SpecGoal: one render's goal evaluation.  The Config sheet holds any     *)
(* rows within the bounds; config is what get_config makes of them.        *)
(***************************************************************************)
MaxConfigRows == 2

BoundedSeq(S, n) == UNION {[1..m -> S] : m \in 0..n}

GoalKeys == {"target_cal", "target_protein"}
\* Goal cells: negative, zero and positive numbers, and text gspread cannot
\* numericise.
GoalValues == {Num(-100), Num(0), Num(200), Str("abc")}
GoalTables == BoundedSeq([Key : GoalKeys, Value : GoalValues], MaxConfigRows)

\* Totals as calculate_daily_summary returns them: numbers.
StatsSet == [cal : {0, 99, 100, 200, 201, 1600}, prot : {0, 50, 160},
             carb : {0, 50, 120, 121}, fat : {0, 10}]

Pending == [status |-> "pending"]
ZeroStats == [cal |-> 0, prot |-> 0, carb |-> 0, fat |-> 0]
NoTotals == [status |-> "pending"]
NoCache == [present |-> FALSE, value |-> EmptyMap]
NoResult == [present |-> FALSE, value |-> EmptyMap]
\* No estimate accepted yet: none issued, none pending (0), none stored.
NoEstimates == [issued |-> 0, pending |-> 0, stored |-> <<>>]

GoalIdle == daily_stats = ZeroStats /\ config = EmptyMap /\ analysis = Pending
SummaryIdle ==
    /\ food_records = <<>> /\ water_records = <<>> /\ target_date = 0
    /\ env = [consistent_format |-> FALSE, food |-> "ok", water |-> "ok"]
    /\ totals = NoTotals
ConfigIdle == config_sheet = <<>> /\ config_cache = NoCache
StoreIdle ==
    /\ sheets = [n \in {} |-> <<>>] /\ cached = {} /\ last_result = NoResult
    /\ estimate_log = NoEstimates

InitGoal ==
    /\ daily_stats \in StatsSet
    /\ \E records \in GoalTables : config = get_config(records)
    /\ analysis = Pending
    /\ SummaryIdle /\ ConfigIdle /\ StoreIdle

\* Line 352: analysis = calculate_daily_macros_goal(daily_stats, config).
EvaluateGoals ==
    /\ analysis = Pending
    /\ analysis' = calculate_daily_macros_goal(daily_stats, config)
    /\ UNCHANGED <<daily_stats, config, summaryVars, configVars, storeVars>>

NextGoal == EvaluateGoals

SpecGoal == InitGoal /\ [][NextGoal]_vars

Returned == analysis.status = "returned"
AlertTitles == [i \in DOMAIN analysis.alerts |-> analysis.alerts[i].title]
HasAlert(t) == \E i \in DOMAIN analysis.alerts : analysis.alerts[i].title = t
\* Position of a rule in the declaration order (rules 1 and 2 share a slot).
RuleRank(t) ==
    CASE t = "cal_excess" -> 1
      [] t = "cal_low" -> 1
      [] t = "protein_low" -> 2
      [] t = "carb_high" -> 3
      [] OTHER -> 0

\* C4: the alert list is exactly the applicable rules in declaration order:
\* calorie-excess (calories > target_cal) or else under-eating
\* (calories < target_cal * 0.5), never both; then protein-deficit
\* (protein < target_protein); then carb-excess (carbs > 120).  Nothing
\* applicable is missing and nothing inapplicable appears.
C4_AlertsExactInOrder ==
    Returned =>
      LET tc == config["target_cal"].v
          tp == config["target_protein"].v
      IN /\ HasAlert("cal_excess") <=> daily_stats.cal > tc
         /\ HasAlert("cal_low") <=>
               (~(daily_stats.cal > tc) /\ 2 * daily_stats.cal < tc)
         /\ ~(HasAlert("cal_excess") /\ HasAlert("cal_low"))
         /\ HasAlert("protein_low") <=> daily_stats.prot < tp
         /\ HasAlert("carb_high") <=> daily_stats.carb > 120
         /\ \A i \in DOMAIN AlertTitles : RuleRank(AlertTitles[i]) > 0
         /\ \A i, j \in DOMAIN AlertTitles :
               i < j => RuleRank(AlertTitles[i]) < RuleRank(AlertTitles[j])

\* The spec's example: calories over target and carbs over 120, protein met.
C4_Witness ==
    /\ Returned
    /\ AlertTitles = <<"cal_excess", "carb_high">>

\* C5: cal_percent is 0 whenever target_cal <= 0 and prot_percent is 0
\* whenever target_protein <= 0, with no division by zero; otherwise each
\* equals total / target * 100.
C5_PercentZeroGuard ==
    Returned =>
      LET tc == config["target_cal"].v
          tp == config["target_protein"].v
      IN /\ analysis.cal_percent.d # 0
         /\ analysis.prot_percent.d # 0
         /\ tc <= 0 => analysis.cal_percent.n = 0
         /\ tp <= 0 => analysis.prot_percent.n = 0
         /\ tc > 0 => RatEq(analysis.cal_percent, Rat(daily_stats.cal * 100, tc))
         /\ tp > 0 => RatEq(analysis.prot_percent, Rat(daily_stats.prot * 100, tp))

C5_Witness ==
    /\ Returned
    /\ config["target_cal"].v = 0
    /\ config["target_protein"].v < 0
    /\ daily_stats.cal > 0
    /\ daily_stats.prot > 0

RECURSIVE Gcd(_, _)
Gcd(a, b) == IF b = 0 THEN a ELSE Gcd(b, a % b)
\* Sum of two fractions with positive denominators, over their least common
\* denominator.
RatAdd(a, b) ==
    LET l == (a.d \div Gcd(a.d, b.d)) * b.d
    IN Rat(a.n * (l \div a.d) + b.n * (l \div b.d), l)

\* C6: the macro breakdown is by energy: calories are grams times 4, 4 and 9,
\* each percentage is that macro's calories over the sum of the three times
\* 100, the percentages sum to 100 when the sum is positive and are all 0
\* when the sum is 0.
C6_MacroByEnergy ==
    Returned =>
      LET cals == <<daily_stats.prot * 4, daily_stats.carb * 4, daily_stats.fat * 9>>
          sum == cals[1] + cals[2] + cals[3]
          pct == analysis.percentage
      IN /\ analysis.calories = cals
         /\ sum > 0 =>
              /\ \A i \in 1..3 : RatEq(pct[i], Rat(cals[i] * 100, sum))
              /\ RatEq(RatAdd(pct[1], RatAdd(pct[2], pct[3])), Rat(100, 1))
         /\ sum = 0 => \A i \in 1..3 : pct[i].n = 0

\* The spec's example: 50 g protein, 50 g carbs, 10 g fat give 200, 200, 90.
C6_Witness ==
    /\ Returned
    /\ daily_stats.prot = 50 /\ daily_stats.carb = 50 /\ daily_stats.fat = 10
    /\ analysis.calories = <<200, 200, 90>>

\* C7: calculate_daily_macros_goal returns without raising for every daily
\* totals and every config mapping get_config can return, string goals
\* included.
C7_NeverRaises == analysis.status # "raised"

(***************************************************************************)
(* SpecSummary: one call of calculate_daily_summary over any Food and      *)
(* Water rows within the bounds, under either pandas behaviour and any     *)
(* outcome of the two sheet reads.                                         *)
(***************************************************************************)
MaxFoodRows == 2
MaxWaterRows == 1

Days == {1, 2}
DateCells == {BareDate(1), BareDate(2), Timestamp(2), Garbage}
\* The four nutrition cells of a row: all numeric, or with a blank, a text
\* and a missing (padded '') cell.
NutritionCells ==
    {[cal |-> Num(300), prot |-> Num(30), carb |-> Num(40), fat |-> Num(10)],
     [cal |-> Str(""), prot |-> Str("n/a"), carb |-> Num(50), fat |-> Str("")]}
FoodRows ==
    {[date |-> d, cal |-> n.cal, prot |-> n.prot, carb |-> n.carb, fat |-> n.fat] :
        d \in DateCells, n \in NutritionCells}
WaterRows == [date : DateCells, vol : {Num(500), Str("")}]

InitSummary ==
    /\ food_records \in BoundedSeq(FoodRows, MaxFoodRows)
    /\ water_records \in BoundedSeq(WaterRows, MaxWaterRows)
    /\ target_date \in Days
    /\ env = [consistent_format |-> FALSE, food |-> "ok", water |-> "ok"]
    /\ totals = NoTotals
    /\ GoalIdle /\ ConfigIdle /\ StoreIdle

\* Line 351: daily_stats = calculate_daily_summary(view_date).
Summarize ==
    /\ totals = NoTotals
    /\ \E cf \in BOOLEAN, fo \in Outcomes, wo \in Outcomes :
          /\ env' = [consistent_format |-> cf, food |-> fo, water |-> wo]
          /\ totals' = [status |-> "returned",
                        value |-> calculate_daily_summary(target_date, food_records,
                                                          water_records, env')]
    /\ UNCHANGED <<food_records, water_records, target_date, goalVars, configVars,
                   storeVars>>

NextSummary == Summarize

SpecSummary == InitSummary /\ [][NextSummary]_vars

Summarized == totals.status = "returned"
\* The calendar day a stored date cell denotes, as "YYYY-MM-DD"; text that is
\* no date denotes none.
Normalized(cell) == IF cell.fmt = "bad" THEN "none" ELSE IsoDate(cell.day)
Matching(records, target) ==
    SelectSeq(records, LAMBDA r : Normalized(r.date) = IsoDate(target))
\* Rows the code's filter keeps, read off the frame load_data builds.
Kept(records, target) ==
    LET df == load_data(records, "ok", env.consistent_format).df
        kept == FilterByDate(df, IsoDate(target))
    IN [i \in DOMAIN kept |-> kept[i].row]
CoercedSum(rows, col) == SumSeq([i \in DOMAIN rows |-> Coerce(rows[i][col])])

\* C1: a row contributes to the totals if and only if its stored date,
\* normalized to YYYY-MM-DD, equals the target date, whether it is stored as
\* a bare date or as a timestamp; when nothing matches all five totals are 0.
C1_RowsOfTargetDateOnly ==
    (Summarized /\ env.food = "ok" /\ env.water = "ok") =>
      /\ Kept(food_records, target_date) = Matching(food_records, target_date)
      /\ Kept(water_records, target_date) = Matching(water_records, target_date)
      /\ (Matching(food_records, target_date) = <<>>
            /\ Matching(water_records, target_date) = <<>>)
           => totals.value = ZeroTotals

\* C2: each total is the sum, over the rows of the target date, of the cell
\* coerced to a number, a blank, missing or non-numeric cell counting 0.
C2_TotalsAreCoercedSums ==
    (Summarized /\ env.food = "ok" /\ env.water = "ok") =>
      LET f == Matching(food_records, target_date)
          w == Matching(water_records, target_date)
      IN totals.value = [cal |-> CoercedSum(f, "cal"), prot |-> CoercedSum(f, "prot"),
                         carb |-> CoercedSum(f, "carb"), fat |-> CoercedSum(f, "fat"),
                         water |-> CoercedSum(w, "vol")]

NoFailure == [consistent_format |-> env.consistent_format, food |-> "ok", water |-> "ok"]
Undisturbed ==
    calculate_daily_summary(target_date, food_records, water_records, NoFailure)

\* C3: calculate_daily_summary never raises; a failed sub-table contributes
\* 0 and the other sub-table's totals are what they are without the failure.
C3_PartialFailureIsolation ==
    Summarized =>
      LET t == totals.value
          u == Undisturbed
      IN /\ env.food # "ok" =>
              t.cal = 0 /\ t.prot = 0 /\ t.carb = 0 /\ t.fat = 0
         /\ env.water # "ok" => t.water = 0
         /\ env.water = "ok" => t.water = u.water
         /\ env.food = "ok" =>
              t.cal = u.cal /\ t.prot = u.prot /\ t.carb = u.carb /\ t.fat = u.fat

\* Food fails while Water has rows of the target date, and the reverse.
C3_Witness ==
    /\ Summarized
    /\ env.food = "open_error" /\ env.water = "ok"
    /\ totals.value.water = 500
    /\ Matching(food_records, target_date) # <<>>

(***************************************************************************)
(* Spec: the Weight, Food and Water sheets under renders and submits.      *)
(* Each sheet starts empty, with its header, or with one row written       *)
(* before the header existed; no worksheet is cached yet.  Submits stop    *)
(* once MaxSubmits rows have been written.                                 *)
(***************************************************************************)
MaxSubmits == 2
MaxEstimates == 2

Heights == {170}
Weights == {70}
Bmis == {24}
Waists == {80}
WaterAmounts == {300}

LegacyRow(sheet_name) ==
    CASE sheet_name = WEIGHT_SHEET_NAME -> WeightRow(IsoDate(1), 170, 71, 25, 81)
      [] sheet_name = FOOD_SHEET_NAME ->
           FoodRow(IsoDate(1), "08:00", Str("oats"), Num(300), Num(10), Num(50), Num(5))
      [] sheet_name = WATER_SHEET_NAME -> <<Str(IsoDate(1)), Str("08:00"), Num(500)>>

InitialRows(sheet_name) ==
    {<<>>, <<HEADERS(sheet_name)>>, <<LegacyRow(sheet_name)>>}

\* Rows written by this run's submits (they carry today's date).
Written(rows) == SelectSeq(rows, LAMBDA r : r[1] = Str(NOW_DATE))
WrittenCount ==
    Len(Written(sheets[WEIGHT_SHEET_NAME])) + Len(Written(sheets[FOOD_SHEET_NAME]))
      + Len(Written(sheets[WATER_SHEET_NAME]))

Init ==
    /\ sheets \in {f \in [SheetNames -> UNION {InitialRows(n) : n \in SheetNames}] :
                       \A n \in SheetNames : f[n] \in InitialRows(n)}
    /\ cached = {}
    /\ last_result = NoResult
    /\ estimate_log = NoEstimates
    /\ GoalIdle /\ SummaryIdle /\ ConfigIdle

\* load_data(sheet_name) at render time (lines 259, 268, 453, 519, 545): the
\* read itself changes nothing; the first successful get_google_sheet heals
\* the header.
LoadData(sheet_name) ==
    \E o \in OpenOutcomes :
       LET ws == get_google_sheet(sheets[sheet_name], sheet_name,
                                  sheet_name \in cached, o)
       IN /\ sheets' = [sheets EXCEPT ![sheet_name] = ws.rows]
          /\ cached' = IF ws.cached THEN cached \cup {sheet_name} ELSE cached
          /\ UNCHANGED <<last_result, estimate_log, goalVars, summaryVars, configVars>>

\* One save call with the given outcomes of its two store requests.
Submit(sheet_name, row, o, a) ==
    /\ WrittenCount < MaxSubmits
    /\ sheets' = SaveRow(sheet_name, row, o, a).sheets
    /\ cached' = SaveRow(sheet_name, row, o, a).cached

\* save_weight_data(d, h, w, b, waist), lines 224-227 (called on line 448).
save_weight_data ==
    /\ \E h \in Heights, w \in Weights, b \in Bmis, waist \in Waists,
          o \in OpenOutcomes, a \in {"ok", "error"} :
          Submit(WEIGHT_SHEET_NAME, WeightRow(NOW_DATE, h, w, b, waist), o, a)
    /\ UNCHANGED <<last_result, estimate_log, goalVars, summaryVars, configVars>>

\* Lines 530-542: a quick-add or manual amount, saved when add_val > 0.
save_water_data ==
    /\ \E add_val \in WaterAmounts, o \in OpenOutcomes, a \in {"ok", "error"} :
          /\ add_val > 0
          /\ Submit(WATER_SHEET_NAME, WaterRow(add_val), o, a)
    /\ UNCHANGED <<last_result, estimate_log, goalVars, summaryVars, configVars>>

EstimateOutcomes == {"no_key", "service_error", "decode_error", "parsed"}
\* Key sets of the object the model's JSON holds: the full record, one
\* without fat, one without calories, and the empty object.
EstimateShapes == {Fields, Fields \ {"fat"}, Fields \ {"calories"}, {}}

\* Lines 481-484: the AI button; the result replaces the pending slot when
\* it is truthy.
AIAnalyze(outcome, shape) ==
    /\ estimate_log.issued < MaxEstimates
    /\ last_result' =
          IF AcceptEstimate(analyze_food_with_ai(outcome, shape))
          THEN [present |-> TRUE, value |-> analyze_food_with_ai(outcome, shape).value]
          ELSE last_result
    /\ estimate_log' =
          IF AcceptEstimate(analyze_food_with_ai(outcome, shape))
          THEN [estimate_log EXCEPT !.issued = @ + 1, !.pending = estimate_log.issued + 1]
          ELSE estimate_log
    /\ UNCHANGED <<sheets, cached, goalVars, summaryVars, configVars>>

\* The row save_food_data is called with on lines 512-513.
ConfirmRow(res) ==
    FoodRow(NOW_DATE, NOW_TIME, res["food_name"], res["calories"], res["protein"],
            res["carbs"], DictGet(res, "fat", Num(0)))

\* Mutant: the slot keeps the record after a successful save.
SlotAfterConfirm_Keep(saved) == last_result

\* Lines 512-515: save_food_data raising leaves the script before line 515;
\* otherwise del st.session_state['last_result'].
SlotAfterConfirm(saved) == IF saved THEN NoResult ELSE last_result

\* Lines 487-516: the pending record is shown (lines 504-508 raise KeyError
\* for a record without one of the indexed fields, before the button), and
\* the confirm button saves it and then empties the slot.
ConfirmSave(o, a) ==
    /\ last_result.present
    /\ IndexedFields \subseteq DOMAIN last_result.value
    /\ Submit(FOOD_SHEET_NAME, ConfirmRow(last_result.value), o, a)
    /\ last_result' =
          SlotAfterConfirm(SaveRow(FOOD_SHEET_NAME, ConfirmRow(last_result.value), o, a).ok)
    /\ estimate_log' =
          [estimate_log EXCEPT
             !.stored = IF SaveRow(FOOD_SHEET_NAME, ConfirmRow(last_result.value), o, a).ok
                        THEN Append(@, estimate_log.pending) ELSE @,
             !.pending = IF last_result'.present THEN @ ELSE 0]
    /\ UNCHANGED <<goalVars, summaryVars, configVars>>

Next ==
    \/ \E n \in SheetNames : LoadData(n)
    \/ save_water_data
    \/ save_weight_data
    \/ \E outcome \in EstimateOutcomes, shape \in EstimateShapes : AIAnalyze(outcome, shape)
    \/ \E o \in OpenOutcomes, a \in {"ok", "error"} : ConfirmSave(o, a)

Spec == Init /\ [][Next]_vars

\* The rows a save call can be asked to write to a sheet.
SubmittedRows(sheet_name) ==
    CASE sheet_name = WEIGHT_SHEET_NAME ->
           {WeightRow(NOW_DATE, h, w, b, waist) :
               h \in Heights, w \in Weights, b \in Bmis, waist \in Waists}
      [] sheet_name = WATER_SHEET_NAME -> {WaterRow(v) : v \in WaterAmounts}
      [] sheet_name = FOOD_SHEET_NAME ->
           {ConfirmRow(ParsedObject(shape)) :
               shape \in {x \in EstimateShapes : IndexedFields \subseteq x}}

\* This step is a save call on the sheet that returned without raising.
SaveSucceeded(sheet_name, row) ==
    \E o \in OpenOutcomes :
       /\ SaveRow(sheet_name, row, o, "ok").ok
       /\ sheets' = SaveRow(sheet_name, row, o, "ok").sheets
       /\ cached' = SaveRow(sheet_name, row, o, "ok").cached

\* Every row of old is in new, unchanged, contiguous and in the same order.
Preserved(old, new) ==
    \E k \in 0..(Len(new) - Len(old)) : SubSeq(new, k + 1, k + Len(old)) = old

DataRows(rows, sheet_name) == SelectSeq(rows, LAMBDA r : r # HEADERS(sheet_name))

\* C8 as stated: the tables are append-only and each successful save call
\* adds exactly one row to exactly one table, leaving the others unchanged.
C8_ExactlyOneRow ==
    [][\A n \in SheetNames :
          /\ Preserved(sheets[n], sheets'[n])
          /\ \A row \in SubmittedRows(n) :
                SaveSucceeded(n, row) =>
                   /\ Len(sheets'[n]) = Len(sheets[n]) + 1
                   /\ \A m \in SheetNames \ {n} : sheets'[m] = sheets[m]]_vars

\* C8 amended: the tables are append-only (every stored row stays, unchanged
\* and in order, under renders, header self-heal and submits); each
\* successful save call appends exactly one data row, as the last row of
\* exactly one table, and leaves the other tables unchanged; the only other
\* row it can add is that table's header, and only when the call is the one
\* that first opens the sheet; a row equal to an existing one is appended
\* all the same.
C8_AppendOnly ==
    [][\A n \in SheetNames :
          /\ Preserved(sheets[n], sheets'[n])
          /\ \A row \in SubmittedRows(n) :
                SaveSucceeded(n, row) =>
                   /\ sheets'[n][Len(sheets'[n])] = row
                   /\ DataRows(sheets'[n], n) = Append(DataRows(sheets[n], n), row)
                   /\ Len(sheets'[n]) - Len(sheets[n]) \in {1, 2}
                   /\ Len(sheets'[n]) - Len(sheets[n]) = 2 =>
                         /\ n \notin cached
                         /\ sheets'[n] = Append(HealHeader(sheets[n], n), row)
                   /\ \A m \in SheetNames \ {n} : sheets'[m] = sheets[m]]_vars

\* Two identical water submits stored twice below the healed header, next to
\* a Food sheet whose earlier row survived the header insert.
C8_Witness ==
    /\ sheets[WATER_SHEET_NAME] =
          <<HEADERS(WATER_SHEET_NAME), WaterRow(300), WaterRow(300)>>
    /\ sheets[FOOD_SHEET_NAME] =
          <<HEADERS(FOOD_SHEET_NAME), LegacyRow(FOOD_SHEET_NAME)>>

\* C10: when an AI estimate fails (service error, or output that is not a
\* record with food_name, calories, protein, carbs and fat) nothing from it
\* is placed in the pending slot, and no Food row is stored that was built
\* from a record missing one of those fields.
C10_NoPartialRecord ==
    [][/\ \A outcome \in EstimateOutcomes, shape \in EstimateShapes :
             (AIAnalyze(outcome, shape) /\ ~(outcome = "parsed" /\ shape = Fields))
                => last_result' = last_result
       /\ \A o \in OpenOutcomes :
             (ConfirmSave(o, "ok")
                /\ SaveRow(FOOD_SHEET_NAME, ConfirmRow(last_result.value), o, "ok").ok)
                => DOMAIN last_result.value = Fields]_vars

\* The Food data row a confirm of record res must produce: the record's
\* food name, calories, protein and carbs, and its fat (0 when it has none),
\* after the date and time of the form.
CarriesRecord(row, res) ==
    /\ row[3] = res["food_name"]
    /\ row[4] = res["calories"]
    /\ row[5] = res["protein"]
    /\ row[6] = res["carbs"]
    /\ row[7] = IF "fat" \in DOMAIN res THEN res["fat"] ELSE Num(0)

FoodData(rows) == DataRows(rows, FOOD_SHEET_NAME)

\* C11: the pending slot holds at most one estimate; an accepted estimate
\* replaces the one in the slot and stores nothing; the Food sheet gains a
\* data row only in a confirm of a pending record, which appends exactly one
\* row carrying that record's values and empties the slot; a confirm whose
\* save fails stores nothing and leaves the record in the slot; hence no
\* estimate is ever stored more than once.
C11_PendingSlot ==
    /\ [](\A i, j \in DOMAIN estimate_log.stored :
             estimate_log.stored[i] = estimate_log.stored[j] => i = j)
    /\ [](/\ last_result.present <=> estimate_log.pending # 0
          /\ \A i \in DOMAIN estimate_log.stored :
                estimate_log.stored[i] \in 1..estimate_log.issued
          /\ Len(estimate_log.stored) = Len(Written(sheets[FOOD_SHEET_NAME])))
    /\ [][/\ \A outcome \in EstimateOutcomes, shape \in EstimateShapes :
             (AIAnalyze(outcome, shape)
                /\ AcceptEstimate(analyze_food_with_ai(outcome, shape)))
                => /\ last_result' =
                        [present |-> TRUE,
                         value |-> analyze_food_with_ai(outcome, shape).value]
                   /\ estimate_log'.pending \notin
                        {estimate_log.stored[i] : i \in DOMAIN estimate_log.stored}
                   /\ FoodData(sheets'[FOOD_SHEET_NAME]) = FoodData(sheets[FOOD_SHEET_NAME])
          /\ FoodData(sheets'[FOOD_SHEET_NAME]) # FoodData(sheets[FOOD_SHEET_NAME])
                => /\ last_result.present
                   /\ \E o \in OpenOutcomes : ConfirmSave(o, "ok")
                   /\ \E row \in SubmittedRows(FOOD_SHEET_NAME) :
                         /\ CarriesRecord(row, last_result.value)
                         /\ FoodData(sheets'[FOOD_SHEET_NAME]) =
                               Append(FoodData(sheets[FOOD_SHEET_NAME]), row)
                   /\ last_result' = NoResult
          /\ \A o \in OpenOutcomes, a \in {"ok", "error"} :
                (ConfirmSave(o, a)
                   /\ ~SaveRow(FOOD_SHEET_NAME, ConfirmRow(last_result.value), o, a).ok)
                   => /\ last_result' = last_result
                      /\ FoodData(sheets'[FOOD_SHEET_NAME]) =
                            FoodData(sheets[FOOD_SHEET_NAME])]_vars

\* The first estimate was confirmed and stored once, the slot was emptied,
\* and a second estimate now waits in the slot.
C11_Witness ==
    /\ estimate_log.stored = <<1>>
    /\ estimate_log.pending = 2
    /\ last_result.present
    /\ Len(Written(sheets[FOOD_SHEET_NAME])) = 1
    /\ CarriesRecord(sheets[FOOD_SHEET_NAME][Len(sheets[FOOD_SHEET_NAME])],
                     ParsedObject(Fields))

(***************************************************************************)
(* SpecConfig: the Config sheet under get_config and save_config.  The     *)
(* sheet starts with any rows within the bounds: goals, a free-text row,   *)
(* values that are numbers or text.                                        *)
(***************************************************************************)
ConfigKeys == {"target_cal", "note"}
ConfigValues == {Num(1500), Str("target_cal")}
ConfigTables == BoundedSeq([Key : ConfigKeys, Value : ConfigValues], MaxConfigRows)
\* Line 568-572: the goals the settings tab saves, with number_input values.
SaveKeys == {"target_cal", "target_protein"}
SaveValues == {1800, 2000}
SavePaths == {"cell", "fallback"}

InitConfig ==
    /\ config_sheet \in ConfigTables
    /\ config_cache = NoCache
    /\ GoalIdle /\ SummaryIdle /\ StoreIdle

\* Line 336: config = get_config(), computed when st.cache_data holds none.
GetConfig ==
    /\ ~config_cache.present
    /\ config_cache' = [present |-> TRUE, value |-> get_config(config_sheet)]
    /\ UNCHANGED <<config_sheet, goalVars, summaryVars, storeVars>>

\* save_config(key, value) returning normally: the sheet is written and
\* st.cache_data.clear() drops the cached config (line 222).
SaveConfig(key, value, path) ==
    /\ config_sheet' = save_config_rows(config_sheet, key, value, path)
    /\ config_cache' = NoCache
    /\ UNCHANGED <<goalVars, summaryVars, storeVars>>

NextConfig ==
    \/ GetConfig
    \/ \E key \in SaveKeys, value \in SaveValues, path \in SavePaths :
          SaveConfig(key, value, path)

SpecConfig == InitConfig /\ [][NextConfig]_vars

AtMostOneRowPerKey(rows) ==
    \A i, j \in DOMAIN rows : rows[i].Key = rows[j].Key => i = j

\* C9: after save_config(key, value) completes, from any Config table, the
\* next get_config maps key to value (the cache is invalidated), every other
\* key keeps its value, and a table with at most one row per key still has
\* at most one row per key, on the lookup path and on the fallback path.
C9_Upsert ==
    [][\A key \in SaveKeys, value \in SaveValues, path \in SavePaths :
          SaveConfig(key, value, path) =>
             /\ ~config_cache'.present
             /\ get_config(config_sheet')[key] = Num(value)
             /\ \A k \in DOMAIN get_config(config_sheet) \ {key} :
                   /\ k \in DOMAIN get_config(config_sheet')
                   /\ get_config(config_sheet')[k] = get_config(config_sheet)[k]
             /\ AtMostOneRowPerKey(config_sheet) => AtMostOneRowPerKey(config_sheet')]_vars

====
